---- MODULE Spec2Model ----
(***************************************************************************)
(* Market-data synchronisation and leaderboard pipeline of                 *)
(* backend/cmd_trading/flow_stock_metrics.py.                              *)
(*                                                                         *)
(* Dates are day numbers (an ISO date string orders as its day number).    *)
(* A MongoDB collection is a function from its key to the sequence of      *)
(* documents stored under that key, in insertion order: no unique index    *)
(* exists, so a key may hold several documents.                            *)
(***************************************************************************)
EXTENDS Integers, Sequences, FiniteSets, TLC

\* ------------------------------------------------------------------ bounds
MaxInstruments == 2
MaxRuns == 2
MaxLag == 1
Today == 300
MaxDaysOld == 40
MaxSeries == 6
DailyRows == 260
SchedDays == 2
MaxRaises == 1
MaxCommands == 2

\* ------------------------------------------------------- program constants
ReadLimit == 300
StaleDays == 1
FetchBuffer == 5
MaxShortSpan == 30
LongestWindow == 252
FullLookbackDays == 365
BoardLimit == 3600
NumDateTries == 4
EmaSpan == 20

\* An optional value: None, or the value as a one-element sequence.
None == <<>>

Some(x) == <<x>>

Min(a, b) == IF a < b THEN a ELSE b

\* --------------------------------------------------------------- variables
VARIABLES
  db,         \* the three collections: daily_bars, daily_metrics, leaderboards
  pending,    \* update_one calls issued and not awaited: writes in flight
  runs,       \* per run of the flow: the Memory object and the position of the flow
  clock,      \* datetime.utcnow(), as a counter of the timestamps taken
  source,     \* the market-data source's answer per instrument
  catalog,    \* the active instruments of db.instruments
  at_start,   \* per run: the collections as they were when it started
  log,        \* per run and instrument: what its task read, fetched, wrote and used
  fp,         \* the freshness decision applied to one cached bar set
  sched,      \* the seed scheduler: its position, and the job_runs document
  cmd         \* the commands: document, dispatcher subprocess, manager task, client

vars == <<db, pending, runs, clock, source, catalog, at_start, log, fp, sched, cmd>>

Instruments == 1..MaxInstruments
RunIds == 1..MaxRuns

\* ------------------------------------------------------------------- bars
\* The values the source reports for instrument i on day d.
Price(i, d) == 20 + ((3 * d + 5 * i) % 7)

Volume(i, d) == 100 + ((d + 2 * i) % 5)

\* One row of the downloaded frame as the bar document.
Bar(i, d) ==
  [instrumentId |-> i, date |-> d, open |-> Price(i, d), high |-> Price(i, d) + 2,
   low |-> Price(i, d) - 2, close |-> Price(i, d), volume |-> Volume(i, d)]

\* Cached history: n consecutive days ending daysOld days before today, most
\* recent first, as find().sort("date", -1) returns it.
CachedBars(i, n, daysOld) == [k \in 1..n |-> Bar(i, Today - daysOld - (k - 1))]

\* max(bar["date"] for bar in existing_bars)
MaxDate(bars) ==
  LET dates == {bars[k].date : k \in 1..Len(bars)}
  IN  CHOOSE m \in dates : \A d \in dates : d <= m

\* ------------------------------------------------------- freshness decision
FullPeriod == [unit |-> "y", n |-> 1]

ShortPeriod(n) == [unit |-> "d", n |-> n]

\* A plausible slip: insufficiency tested before staleness.
DecideInsufficiencyFirst(existing_bars) ==
  IF existing_bars = <<>>
  THEN [need_fetch |-> TRUE, fetch_period |-> FullPeriod]
  ELSE LET days_old == Today - MaxDate(existing_bars)
       IN  IF Len(existing_bars) < LongestWindow
           THEN [need_fetch |-> TRUE, fetch_period |-> FullPeriod]
           ELSE IF days_old > StaleDays
           THEN [need_fetch |-> TRUE,
                 fetch_period |-> ShortPeriod(Min(days_old + FetchBuffer, MaxShortSpan))]
           ELSE [need_fetch |-> FALSE, fetch_period |-> FullPeriod]

\* A plausible slip: an off-by-one on the bars needed for the longest window.
DecideOffByOne(existing_bars) ==
  IF existing_bars = <<>>
  THEN [need_fetch |-> TRUE, fetch_period |-> FullPeriod]
  ELSE LET days_old == Today - MaxDate(existing_bars)
       IN  IF days_old > StaleDays
           THEN [need_fetch |-> TRUE,
                 fetch_period |-> ShortPeriod(Min(days_old + FetchBuffer, MaxShortSpan))]
           ELSE IF Len(existing_bars) <= LongestWindow
           THEN [need_fetch |-> TRUE, fetch_period |-> FullPeriod]
           ELSE [need_fetch |-> FALSE, fetch_period |-> FullPeriod]

\* A plausible slip: a bar of the day before counts as outdated.
DecideStaleAtOneDay(existing_bars) ==
  IF existing_bars = <<>>
  THEN [need_fetch |-> TRUE, fetch_period |-> FullPeriod]
  ELSE LET days_old == Today - MaxDate(existing_bars)
       IN  IF days_old >= StaleDays
           THEN [need_fetch |-> TRUE,
                 fetch_period |-> ShortPeriod(Min(days_old + FetchBuffer, MaxShortSpan))]
           ELSE IF Len(existing_bars) < LongestWindow
           THEN [need_fetch |-> TRUE, fetch_period |-> FullPeriod]
           ELSE [need_fetch |-> FALSE, fetch_period |-> FullPeriod]

\* need_fetch and fetch_period as exec decides them from the bars it read.
Decide(existing_bars) ==
  IF existing_bars = <<>>
  THEN [need_fetch |-> TRUE, fetch_period |-> FullPeriod]
  ELSE LET days_old == Today - MaxDate(existing_bars)
       IN  IF days_old > StaleDays
           THEN [need_fetch |-> TRUE,
                 fetch_period |-> ShortPeriod(Min(days_old + FetchBuffer, MaxShortSpan))]
           ELSE IF Len(existing_bars) < LongestWindow
           THEN [need_fetch |-> TRUE, fetch_period |-> FullPeriod]
           ELSE [need_fetch |-> FALSE, fetch_period |-> FullPeriod]

\* ------------------------------------------------------------ collections
Collections == {"daily_bars", "daily_metrics", "leaderboards"}

EmptyCollection == [k \in {} |-> <<>>]

\* The oldest and the most recent day a bar of the model can carry.
DateLo == Today - MaxDaysOld - ReadLimit

DateHi == Today

\* The documents of one collection under one key, in insertion order.
DocsAt(coll, key) == IF key \in DOMAIN coll THEN coll[key] ELSE <<>>

\* A $set that keeps the fields the document already has.
SetFieldsKeepExisting(doc, fields) ==
  [f \in DOMAIN doc \cup DOMAIN fields |-> IF f \in DOMAIN doc THEN doc[f] ELSE fields[f]]

\* {"$set": fields}: the fields given replace or extend the document's.
SetFields(doc, fields) ==
  [f \in DOMAIN doc \cup DOMAIN fields |-> IF f \in DOMAIN fields THEN fields[f] ELSE doc[f]]

\* An upsert that first deletes what the collection holds under the same first
\* key component (the same instrument).
UpdateOneReplacingAll(coll, key, fields) ==
  [k \in {q \in DOMAIN coll : q[1] # key[1]} \cup {key} |->
     IF k = key THEN <<fields>> ELSE coll[k]]

\* update_one(filter, {"$set": fields}, upsert=True) applied by the server: the
\* first document matching the filter is updated, and one is inserted if none does.
UpdateOne(coll, key, fields) ==
  IF key \in DOMAIN coll
  THEN [coll EXCEPT ![key] = <<SetFields(Head(@), fields)>> \o Tail(@)]
  ELSE coll @@ (key :> <<fields>>)

\* Two upserts of one key that the server runs concurrently while no document
\* matches: with no unique index on the key, each inserts its own document.
UpdateOneRacing(coll, key, fields1, fields2) == coll @@ (key :> <<fields1, fields2>>)

\* db.daily_bars.find({"instrumentId": i}).sort("date", -1) over the days lo..hi.
RECURSIVE BarsDesc(_, _, _, _)
BarsDesc(bars, i, lo, hi) ==
  IF lo = hi THEN DocsAt(bars, <<i, lo>>)
  ELSE LET mid == (lo + hi) \div 2
       IN  BarsDesc(bars, i, mid + 1, hi) \o BarsDesc(bars, i, lo, mid)

Take(s, n) == IF Len(s) <= n THEN s ELSE SubSeq(s, 1, n)

\* find({"instrumentId": i}).sort("date", -1).limit(300), to_list
ReadRecent(bars, i) == Take(BarsDesc(bars, i, DateLo, DateHi), ReadLimit)

\* A stable sort on an integer key, rank[k] being the key of s[k]: each element
\* goes to the place given by the number of elements that sort before it.
RECURSIVE Placed(_, _, _, _)
Placed(s, rank, lo, hi) ==
  IF lo = hi
  THEN Cardinality({m \in 1..Len(s) :
                      \/ rank[m] < rank[lo]
                      \/ (rank[m] = rank[lo] /\ m <= lo)}) :> s[lo]
  ELSE LET mid == (lo + hi) \div 2
       IN  Placed(s, rank, lo, mid) @@ Placed(s, rank, mid + 1, hi)

StableSort(s, rank) ==
  IF s = <<>> THEN <<>>
  ELSE LET placed == Placed(s, rank, 1, Len(s)) IN [k \in 1..Len(s) |-> placed[k]]

\* sorted(daily_bars, key=lambda x: x["date"])
SortedByDate(bars) == StableSort(bars, [k \in 1..Len(bars) |-> bars[k].date])

\* ------------------------------------------------------ market-data source
\* The days for which the source holds a row, oldest first.
SourceHistory == <<Today - 40, Today - 35, Today>>

SourceAnswers == {"rows", "empty", "malformed"}

PeriodDays(period) == IF period.unit = "y" THEN FullLookbackDays * period.n ELSE period.n

\* yf.download(symbol, period=fetch_period, interval="1d") turned into bars: the
\* rows of the requested span, oldest first.
DownloadFrom(history, i, period) ==
  LET days == SelectSeq(history, LAMBDA d : d > Today - PeriodDays(period))
  IN  [k \in 1..Len(days) |-> Bar(i, days[k])]

Download(i, period) == DownloadFrom(SourceHistory, i, period)

\* A source that holds a row for every one of the last DailyRows days.
DailyHistory == [k \in 1..DailyRows |-> Today - DailyRows + k]

\* ----------------------------------------------------------------- metrics
Windows ==
  <<[n |-> 5, label |-> "5d"], [n |-> 21, label |-> "1M"], [n |-> 42, label |-> "2M"],
    [n |-> 63, label |-> "3M"], [n |-> 126, label |-> "6M"], [n |-> 252, label |-> "52w"]>>

\* A window that is left out when the series is shorter than it.
window_barsStrict(bars, n) ==
  IF Len(bars) >= n THEN SubSeq(bars, Len(bars) - n + 1, Len(bars)) ELSE <<>>

\* A window taken from the oldest bars: bars[:n].
window_barsOldest(bars, n) == IF Len(bars) >= n THEN SubSeq(bars, 1, n) ELSE bars

\* bars[-n:] if len(bars) >= n else bars
window_bars(bars, n) ==
  IF Len(bars) >= n THEN SubSeq(bars, Len(bars) - n + 1, Len(bars)) ELSE bars

high(bars) ==
  LET hs == {bars[k].high : k \in 1..Len(bars)} IN CHOOSE h \in hs : \A x \in hs : x <= h

low(bars) ==
  LET ls == {bars[k].low : k \in 1..Len(bars)} IN CHOOSE l \in ls : \A x \in ls : l <= x

\* (diff / base * 100) if base else None, as the exact quotient num / den.
PctOf(diff, base) == IF base # 0 THEN Some([num |-> diff * 100, den |-> base]) ELSE None

\* The six fields of one window.
WindowFields(bars, last_price, w) ==
  LET wbars == window_bars(bars, w.n)
      h == high(wbars)
      l == low(wbars)
  IN  (("high_" \o w.label) :> h)
      @@ (("low_" \o w.label) :> l)
      @@ (("change_from_low_" \o w.label) :> (last_price - l))
      @@ (("change_pct_from_low_" \o w.label) :> PctOf(last_price - l, l))
      @@ (("change_from_high_" \o w.label) :> (last_price - h))
      @@ (("change_pct_from_high_" \o w.label) :> PctOf(last_price - h, h))

RECURSIVE AllWindowFields(_, _, _)
AllWindowFields(bars, last_price, k) ==
  IF k > Len(Windows) THEN <<>>
  ELSE IF Len(window_bars(bars, Windows[k].n)) < 1
       THEN AllWindowFields(bars, last_price, k + 1)
       ELSE WindowFields(bars, last_price, Windows[k])
            @@ AllWindowFields(bars, last_price, k + 1)

\* A float is the quotient num / den of two integers; float("nan") has den = 0.
NaN == [num |-> 0, den |-> 0]

IsNaN(x) == x.den = 0

Float(n) == [num |-> n, den |-> 1]

\* x <= y on floats: false when either is NaN.
FloatLessOrEqual(x, y) == ~IsNaN(x) /\ ~IsNaN(y) /\ x.num * y.den <= y.num * x.den

\* x < y on floats: false when either is NaN.
FloatLess(x, y) == ~IsNaN(x) /\ ~IsNaN(y) /\ x.num * y.den < y.num * x.den

\* The sum of the closes of bars[lo..hi].
RECURSIVE SumCloses(_, _, _)
SumCloses(bars, lo, hi) ==
  IF lo > hi THEN 0
  ELSE IF lo = hi THEN bars[lo].close
  ELSE LET mid == (lo + hi) \div 2
       IN  SumCloses(bars, lo, mid) + SumCloses(bars, mid + 1, hi)

\* df["close"].rolling(window=n).mean() at the last row: NaN until n rows exist.
RollingMean(bars, n) ==
  IF Len(bars) >= n
  THEN [num |-> SumCloses(bars, Len(bars) - n + 1, Len(bars)), den |-> n]
  ELSE NaN

\* The exponential average is carried as a multiple of 1 / EmaScale: the value
\* is exact up to 5 rows and rounded down to that resolution from there on.
EmaScale == (EmaSpan + 1) * (EmaSpan + 1) * (EmaSpan + 1) * (EmaSpan + 1)

\* A step with the divisor span in place of span + 1.
EwmStepAlphaOverSpan(y, close) == ((EmaSpan - 2) * y + 2 * close * EmaScale) \div EmaSpan

\* One step of ewm(span=20, adjust=False): y = (1 - a) * y + a * x, a = 2 / (span + 1).
EwmStep(y, close) == ((EmaSpan - 1) * y + 2 * close * EmaScale) \div (EmaSpan + 1)

\* The steps over bars[lo..hi], from the value y, carried forward row by row:
\* the value after the first half is computed, then the second half starts from it.
RECURSIVE EwmOver(_, _, _, _)
EwmOver(y, bars, lo, hi) ==
  IF lo > hi THEN y
  ELSE IF lo = hi THEN EwmStep(y, bars[lo].close)
  ELSE LET mid == (lo + hi) \div 2
           left == EwmOver(y, bars, lo, mid)
       IN  CASE left \in Int -> EwmOver(left, bars, mid + 1, hi)

\* df["close"].ewm(span=20, adjust=False).mean() at the last row, seeded with the
\* first close.
Ewm(bars) == [num |-> EwmOver(bars[1].close * EmaScale, bars, 2, Len(bars)), den |-> EmaScale]

\* ma50, ma100, ma200, ema20 and stacked_ma_trend: float(...) of the last row's
\* values, NaN included, and the chained comparison on them.
TrendFields(bars, last_price) ==
  LET ma50 == RollingMean(bars, 50)
      ma100 == RollingMean(bars, 100)
      ma200 == RollingMean(bars, 200)
      ema20 == Ewm(bars)
  IN  [ma50 |-> Some(ma50), ma100 |-> Some(ma100), ma200 |-> Some(ma200),
       ema20 |-> Some(ema20),
       stacked_ma_trend |-> /\ FloatLess(ma200, ma100)
                            /\ FloatLess(ma100, ma50)
                            /\ FloatLess(ma50, ema20)
                            /\ FloatLess(ema20, Float(last_price))]

\* The metrics record exec builds from the bars it read, stamped with utcnow.
ComputeMetrics(i, daily_bars, now) ==
  LET bars == SortedByDate(daily_bars)
      last == bars[Len(bars)]
  IN  [instrumentId |-> i, symbol |-> i, date |-> last.date, last_price |-> last.close,
       volume |-> last.volume, computedAt |-> now]
      @@ AllWindowFields(bars, last.close, 1)
      @@ TrendFields(bars, last.close)

\* ------------------------------------------------------------ leaderboards
Periods == <<"5d", "1M", "2M", "3M", "6M", "52w">>

\* The candidate dates tried oldest first.
DateTryOldestFirst(today, k) == today - (NumDateTries - k)

\* date_tries: the execution date and the days before it, most recent first.
DateTry(today, k) == today - (k - 1)

SortKey(label, typ) ==
  IF typ = "high" THEN "change_pct_from_low_" \o label ELSE "change_pct_from_high_" \o label

\* The metrics documents of one date, in the collection's order.
RECURSIVE MetricsOn(_, _, _)
MetricsOn(metrics, date, i) ==
  IF i > MaxInstruments THEN <<>>
  ELSE DocsAt(metrics, <<i, date>>) \o MetricsOn(metrics, date, i + 1)

\* The order of two quotients with positive or negative denominators.
PctLess(x, y) ==
  IF (x.den > 0) = (y.den > 0) THEN x.num * y.den < y.num * x.den
  ELSE x.num * y.den > y.num * x.den

\* The find without its sort.
FindByPctUnsorted(metrics, key, date_try, sort_dir) ==
  Take(SelectSeq(MetricsOn(metrics, date_try, 1), LAMBDA m : m[key] # None), BoardLimit)

\* find({key: {"$ne": None}, "date": date_try}).sort([(key, sort_dir)]).limit(3600)
FindByPct(metrics, key, date_try, sort_dir) ==
  LET found == SelectSeq(MetricsOn(metrics, date_try, 1), LAMBDA m : m[key] # None)
      Before(x, y) == IF sort_dir = 1 THEN PctLess(x[key][1], y[key][1])
                      ELSE PctLess(y[key][1], x[key][1])
      rank == [k \in 1..Len(found) |->
                 Cardinality({m \in 1..Len(found) : Before(found[m], found[k])})]
  IN  Take(StableSort(found, rank), BoardLimit)

\* find({"date": date_try, "volume": {"$ne": None}}).sort([("volume", -1)]).limit(3600)
FindByVolume(metrics, date_try) ==
  LET found == SelectSeq(MetricsOn(metrics, date_try, 1), LAMBDA m : m.volume \in Int)
  IN  Take(StableSort(found, [k \in 1..Len(found) |-> 0 - found[k].volume]), BoardLimit)

PctBoard(date_try, label, typ, metrics, now) ==
  [date |-> date_try, period |-> label, type |-> typ, generatedAt |-> now,
   items |-> [rank \in 1..Len(metrics) |->
                [instrumentId |-> metrics[rank].instrumentId,
                 symbol |-> metrics[rank].symbol,
                 change_pct |-> metrics[rank][SortKey(label, typ)],
                 last_price |-> metrics[rank].last_price,
                 volume |-> metrics[rank].volume,
                 rank |-> rank]]]

VolumeBoard(date_try, metrics, now) ==
  [date |-> date_try, period |-> "market_movers", type |-> "volume", generatedAt |-> now,
   items |-> [rank \in 1..Len(metrics) |->
                [instrumentId |-> metrics[rank].instrumentId,
                 symbol |-> metrics[rank].symbol,
                 volume |-> metrics[rank].volume,
                 last_price |-> metrics[rank].last_price,
                 rank |-> rank]]]

\* ---------------------------------------------------------- writes in flight
\* update_one is called and its future is dropped: the write is handed to the
\* driver's thread pool and nothing waits for it.
Write(coll, key, fields, r) ==
  [coll |-> coll, key |-> key, fields |-> fields, run |-> r, age |-> 0]

BarWrite(bar, r) == Write("daily_bars", <<bar.instrumentId, bar.date>>, bar, r)

MetricsWrite(m, r) == Write("daily_metrics", <<m.instrumentId, m.date>>, m, r)

BoardWrite(board, r) ==
  Write("leaderboards", <<board.date, board.period, board.type>>, board, r)

\* The writes ws[lo..hi] applied in order: the first half, then the second half
\* on its result.
RECURSIVE ApplyRange(_, _, _, _)
ApplyRange(dbv, ws, lo, hi) ==
  IF lo > hi THEN dbv
  ELSE IF lo = hi
  THEN [dbv EXCEPT ![ws[lo].coll] = UpdateOne(@, ws[lo].key, ws[lo].fields)]
  ELSE LET mid == (lo + hi) \div 2
           left == ApplyRange(dbv, ws, lo, mid)
       IN  CASE DOMAIN left = DOMAIN dbv -> ApplyRange(left, ws, mid + 1, hi)

ApplyAll(dbv, ws) == ApplyRange(dbv, ws, 1, Len(ws))

\* The writes of run r to one collection that are still in flight.
InFlight(r, coll) == {w \in pending : w.run = r /\ w.coll = coll}

\* A write stays in flight across at most MaxLag further steps of its run.
CanStep(r) == \A w \in pending : w.run = r => w.age < MaxLag

Aged(r) == {IF w.run = r THEN [w EXCEPT !.age = @ + 1] ELSE w : w \in pending}

\* Run r issues the writes ws in order: those of D stay in flight, the others
\* have been applied by the time the step ends.
Issue(r, ws, D) ==
  /\ D \subseteq {ws[k] : k \in 1..Len(ws)}
  /\ db' = ApplyAll(db, SelectSeq(ws, LAMBDA w : w \notin D))
  /\ pending' = Aged(r) \cup D

\* ------------------------------------------------------------------- state
AggFirst == [l |-> 1, t |-> "high", d |-> 1]

\* A flow not yet started: Memory({"execution_date": ...}).
IdleRun ==
  [phase |-> "idle", execution_date |-> Today, batches_nb |-> 0, todo |-> {}, cur |-> 0,
   agg |-> AggFirst, computed |-> 0, finds |-> 0, unapplied_at_find |-> 0,
   issued |-> EmptyCollection]

NoTask ==
  [task |-> "none", reads |-> 0, read_len |-> 0, read_latest |-> 0, need_fetch |-> FALSE,
   downloads |-> 0, bar_writes |-> 0, used_len |-> 0, used_latest |-> 0,
   metrics |-> None, decrements |-> 0, unapplied_at_reload |-> 0]

CacheShapes == {"empty", "partial", "full"}

\* The days of the bars a cache of one shape holds.
ShapeDays(shape) ==
  CASE shape = "empty" -> {}
    [] shape = "partial" -> {SourceHistory[1]}
    [] shape = "full" -> {Today - k : k \in 0..(LongestWindow - 1)}

CacheOf(shape) ==
  [key \in UNION {{<<i, d>> : d \in ShapeDays(shape[i])} : i \in DOMAIN shape}
     |-> <<Bar(key[1], key[2])>>]

\* The scheduler before its first check, and no job_runs document.
NoSchedule ==
  [pc |-> "sleep", now |-> Today, today |-> 0, prices |-> 0, run |-> 0,
   last_run_date |-> None, first |-> None, returned |-> None, failed |-> FALSE,
   raised |-> 0, seeded |-> <<>>]

\* A command not yet created: no document, no subprocess, no manager task.
NoCommand ==
  [created |-> FALSE, kind |-> "ok", exit_state |-> 0, stdout |-> "none", stderr |-> "none",
   started_at |-> FALSE, completed_at |-> FALSE, shell |-> "none", returncode |-> 0,
   manager |-> "none", result |-> 0, seen_final |-> FALSE, seen_running_after |-> FALSE]

CommandIds == 1..MaxCommands

NoCommands == [c \in CommandIds |-> NoCommand]

NoDecision ==
  [n |-> 0, age |-> 0, existing_bars |-> <<>>, decision |-> None, metrics |-> None,
   rows |-> 0, used_len |-> 0, stored_len |-> 0]

\* The state before any run: a catalog of one of the sizes, each instrument with
\* a cache of one of the shapes and a source answer, at most one of them malformed.
StoreWith(sizes, shapes) ==
  /\ \E n \in sizes : catalog = 1..n
  /\ source \in [catalog -> SourceAnswers]
  /\ Cardinality({i \in catalog : source[i] = "malformed"}) <= 1
  /\ \E shape \in [catalog -> shapes] :
       db = [daily_bars |-> CacheOf(shape), daily_metrics |-> EmptyCollection,
             leaderboards |-> EmptyCollection]
  /\ at_start = [r \in RunIds |-> None]
  /\ pending = {}
  /\ runs = [r \in RunIds |-> IdleRun]
  /\ clock = 1
  /\ log = [r \in RunIds |-> [i \in Instruments |-> NoTask]]
  /\ fp = NoDecision
  /\ cmd = NoCommands

InitWith(sizes, shapes) == StoreWith(sizes, shapes) /\ sched = NoSchedule

InitFrom(maxN, shapes) == InitWith(1..maxN, shapes)

Init == InitFrom(MaxInstruments, CacheShapes)

\* One instrument whose cache is empty or holds the oldest row only.
InitSmall == InitFrom(1, {"empty", "partial"})

Active(r) == runs[r].phase \in {"tasks", "agg"}

\* ------------------------------------------------------------------ actions
\* seed_instrument_prices up to the end of FanOutInstruments.post: the catalog
\* is loaded, batches_nb is set and one task per instrument is triggered. With
\* no instrument nothing is triggered: either the flow ends there, or it follows
\* the default edge with the Memory in place of an instrument and exec raises on
\* instrument["symbol"]; ComputeLeaderboards is not reached in either case.
StartRun(r) ==
  /\ runs[r].phase = "idle"
  /\ \A q \in RunIds : q < r => runs[q].phase # "idle"
  /\ \E ended \in {"done", "aborted"} :
       runs' = [runs EXCEPT ![r] = [@ EXCEPT !.phase = IF catalog = {} THEN ended
                                                      ELSE "tasks",
                                             !.batches_nb = Cardinality(catalog),
                                             !.todo = catalog]]
  /\ at_start' = [at_start EXCEPT ![r] = Some([db |-> db, quiet |-> pending = {}])]
  /\ UNCHANGED <<db, pending, clock, source, catalog, log, fp, cmd>>

\* ComputeLeaderboards.exec up to its barrier check, for one finished task.
AfterDecrement(run) ==
  LET nb == run.batches_nb - 1
  IN  IF nb > 0
      THEN [run EXCEPT !.batches_nb = nb, !.cur = 0,
                       !.phase = IF run.todo = {} THEN "done" ELSE "tasks"]
      ELSE [run EXCEPT !.batches_nb = nb, !.cur = 0, !.phase = "agg", !.agg = AggFirst,
                       !.computed = @ + 1]

\* A skipped instrument that is not counted towards the barrier.
CompleteSkipUncounted(r, i, daily_bars, entry) ==
  LET run == [runs[r] EXCEPT !.todo = @ \ {i}]
      done == [entry EXCEPT !.task = "returned", !.used_len = Len(daily_bars)]
  IN  IF daily_bars = <<>>
      THEN /\ pending' = Aged(r)
           /\ runs' = [runs EXCEPT ![r] = [run EXCEPT !.cur = 0]]
           /\ log' = [log EXCEPT ![r][i] = done]
           /\ UNCHANGED <<db, clock>>
      ELSE LET metrics == ComputeMetrics(i, daily_bars, clock)
               w == MetricsWrite(metrics, r)
           IN  /\ \E D \in SUBSET {w} : Issue(r, <<w>>, D)
               /\ clock' = clock + 1
               /\ runs' = [runs EXCEPT ![r] = AfterDecrement(run)]
               /\ log' = [log EXCEPT ![r][i] =
                            [done EXCEPT !.used_latest = MaxDate(daily_bars),
                                         !.metrics = Some(metrics),
                                         !.decrements = @ + 1]]

\* exec from "daily_bars = existing_bars" to its return, then the successor
\* node's decrement: the metrics of the bars read are computed and their upsert
\* is issued, unless no bar was read.
Complete(r, i, daily_bars, entry) ==
  LET run == [runs[r] EXCEPT !.todo = @ \ {i}]
      done == [entry EXCEPT !.task = "returned", !.used_len = Len(daily_bars),
                            !.decrements = @ + 1]
  IN  IF daily_bars = <<>>
      THEN /\ pending' = Aged(r)
           /\ runs' = [runs EXCEPT ![r] = AfterDecrement(run)]
           /\ log' = [log EXCEPT ![r][i] = done]
           /\ UNCHANGED <<db, clock>>
      ELSE LET metrics == ComputeMetrics(i, daily_bars, clock)
               w == MetricsWrite(metrics, r)
           IN  /\ \E D \in SUBSET {w} : Issue(r, <<w>>, D)
               /\ clock' = clock + 1
               /\ runs' = [runs EXCEPT ![r] = AfterDecrement(run)]
               /\ log' = [log EXCEPT ![r][i] =
                            [done EXCEPT !.used_latest = MaxDate(daily_bars),
                                         !.metrics = Some(metrics)]]

\* exec of one instrument's task from its start to its next await: the cache is
\* read, the fetch decided and, when needed, the rows are downloaded and their
\* upserts issued; a malformed row raises out of exec and ends the flow.
TaskRead(r, i) ==
  /\ runs[r].phase = "tasks"
  /\ runs[r].cur = 0
  /\ i \in runs[r].todo
  /\ CanStep(r)
  /\ LET existing_bars == ReadRecent(db.daily_bars, i)
         decision == Decide(existing_bars)
         entry == [log[r][i] EXCEPT
                     !.task = "running", !.reads = 1, !.read_len = Len(existing_bars),
                     !.read_latest = IF existing_bars = <<>> THEN 0
                                     ELSE MaxDate(existing_bars),
                     !.need_fetch = decision.need_fetch,
                     !.downloads = IF decision.need_fetch THEN 1 ELSE 0]
     IN  IF ~decision.need_fetch
         THEN Complete(r, i, existing_bars, entry)
         ELSE IF source[i] = "malformed"
         THEN /\ runs' = [runs EXCEPT ![r] = [@ EXCEPT !.phase = "aborted",
                                                       !.todo = @ \ {i}]]
              /\ log' = [log EXCEPT ![r][i] = [entry EXCEPT !.task = "raised"]]
              /\ pending' = Aged(r)
              /\ UNCHANGED <<db, clock>>
         ELSE LET rows == IF source[i] = "empty" THEN <<>>
                          ELSE Download(i, decision.fetch_period)
                  ws == [k \in 1..Len(rows) |-> BarWrite(rows[k], r)]
              IN  /\ \E D \in SUBSET {ws[k] : k \in 1..Len(ws)} : Issue(r, ws, D)
                  /\ runs' = [runs EXCEPT ![r] = [@ EXCEPT !.cur = i, !.todo = @ \ {i}]]
                  /\ log' = [log EXCEPT ![r][i] = [entry EXCEPT !.bar_writes = Len(rows)]]
                  /\ UNCHANGED clock
  /\ UNCHANGED <<source, catalog, at_start, fp, sched, cmd>>

\* exec after a fetch: the cache is read again and the task completes.
TaskReload(r) ==
  /\ runs[r].phase = "tasks"
  /\ runs[r].cur # 0
  /\ CanStep(r)
  /\ LET i == runs[r].cur
     IN  Complete(r, i, ReadRecent(db.daily_bars, i),
                  [log[r][i] EXCEPT !.reads = 2,
                                    !.unapplied_at_reload = Cardinality(InFlight(r, "daily_bars"))])
  /\ UNCHANGED <<source, catalog, at_start, fp, sched, cmd>>

\* The flow's state once the body of ComputeLeaderboards.exec has returned.
AfterBoards(run) == [run EXCEPT !.phase = IF run.todo = {} THEN "done" ELSE "tasks"]

\* The flow's state once it has called update_one for a board: the board is the
\* latest one computed for its key.
Issued(run, w) == [run EXCEPT !.issued = (w.key :> w.fields) @@ @]

\* The body of ComputeLeaderboards.exec, one find at a time.
AggStep(r) ==
  /\ runs[r].phase = "agg"
  /\ CanStep(r)
  /\ LET run == [runs[r] EXCEPT
                    !.finds = @ + 1,
                    !.unapplied_at_find =
                       IF @ = 0 /\ runs[r].finds = 0
                       THEN Cardinality(InFlight(r, "daily_metrics")) ELSE @]
         pos == run.agg
         label == Periods[pos.l]
         date_try == DateTry(run.execution_date, pos.d)
     IN  IF pos.t = "volume"
         THEN LET metrics == FindByVolume(db.daily_metrics, date_try)
                  w == BoardWrite(VolumeBoard(date_try, metrics, clock), r)
                  next == IF pos.d < NumDateTries
                          THEN [run EXCEPT !.agg = [pos EXCEPT !.d = @ + 1]]
                          ELSE IF pos.l < Len(Periods)
                          THEN [run EXCEPT !.agg = [l |-> pos.l + 1, t |-> "high", d |-> 1]]
                          ELSE AfterBoards(run)
              IN  IF metrics # <<>>
                  THEN /\ \E D \in SUBSET {w} : Issue(r, <<w>>, D)
                       /\ clock' = clock + 1
                       /\ runs' = [runs EXCEPT ![r] = Issued(next, w)]
                  ELSE /\ pending' = Aged(r)
                       /\ runs' = [runs EXCEPT ![r] = next]
                       /\ UNCHANGED <<db, clock>>
         ELSE LET metrics == FindByPct(db.daily_metrics, SortKey(label, pos.t), date_try,
                                       IF pos.t = "high" THEN -1 ELSE 1)
                  w == BoardWrite(PctBoard(date_try, label, pos.t, metrics, clock), r)
              IN  IF metrics # <<>> \/ pos.d = NumDateTries
                  THEN /\ \E D \in SUBSET {w} : Issue(r, <<w>>, D)
                       /\ clock' = clock + 1
                       /\ runs' = [runs EXCEPT ![r] =
                                     Issued([run EXCEPT !.agg =
                                               [l |-> pos.l, d |-> 1,
                                                t |-> IF pos.t = "high" THEN "low"
                                                      ELSE "volume"]], w)]
                  ELSE /\ pending' = Aged(r)
                       /\ runs' = [runs EXCEPT ![r] = [run EXCEPT !.agg = [pos EXCEPT !.d = @ + 1]]]
                       /\ UNCHANGED <<db, clock>>
  /\ UNCHANGED <<source, catalog, at_start, log, fp, sched, cmd>>

\* The process dies or the awaiting caller is cancelled: the flow stops where it is.
Interrupt(r) ==
  /\ Active(r)
  /\ runs' = [runs EXCEPT ![r] = [IdleRun EXCEPT !.phase = "interrupted"]]
  /\ log' = [log EXCEPT ![r] = [i \in Instruments |-> NoTask]]
  /\ UNCHANGED <<db, pending, clock, source, catalog, at_start, fp, sched, cmd>>

\* The server applies one write in flight.
ApplyWrite(w) ==
  /\ w \in pending
  /\ db' = [db EXCEPT ![w.coll] = UpdateOne(@, w.key, w.fields)]
  /\ pending' = pending \ {w}
  /\ UNCHANGED <<runs, clock, source, catalog, at_start, log, fp, sched, cmd>>

\* The server runs two upserts of one key, which no document matches, concurrently.
ApplyRacing(w1, w2) ==
  /\ w1 \in pending
  /\ w2 \in pending
  /\ w1 # w2
  /\ w1.coll = w2.coll
  /\ w1.key = w2.key
  /\ w1.key \notin DOMAIN db[w1.coll]
  /\ db' = [db EXCEPT ![w1.coll] = UpdateOneRacing(@, w1.key, w1.fields, w2.fields)]
  /\ pending' = pending \ {w1, w2}
  /\ UNCHANGED <<runs, clock, source, catalog, at_start, log, fp, sched, cmd>>

\* A write still in the thread pool is lost with the process.
DropWrite(w) ==
  /\ w \in pending
  /\ runs[w.run].phase = "interrupted"
  /\ pending' = pending \ {w}
  /\ UNCHANGED <<db, runs, clock, source, catalog, at_start, log, fp, sched, cmd>>

\* One invocation of the pipeline.
FirstRun(r) ==
  /\ r = 1
  /\ StartRun(r)
  /\ UNCHANGED sched

\* A later invocation, once no flow is running and the server has settled the
\* writes of the earlier ones: the scheduler's next pass under its lock, or the
\* routes called one after the other.
Rerun(r) ==
  /\ r > 1
  /\ \A q \in RunIds : ~Active(q)
  /\ pending = {}
  /\ StartRun(r)
  /\ UNCHANGED sched

\* A later invocation while a flow may be running: the admin route takes no lock.
OverlappingRun(r) ==
  /\ r > 1
  /\ StartRun(r)
  /\ UNCHANGED sched

\* seed_leaderboards_only up to the body of ComputeLeaderboards.exec: the catalog
\* is loaded, batches_nb is set to 0 and the flow goes from LoadInstruments to
\* ComputeLeaderboards, whose decrement leaves -1, which is not above 0, so that
\* its body runs.
StartBoards(r) ==
  /\ runs[r].phase = "idle"
  /\ \A q \in RunIds : q < r => runs[q].phase # "idle"
  /\ runs' = [runs EXCEPT ![r] = [@ EXCEPT !.phase = "agg", !.batches_nb = 0 - 1,
                                           !.computed = @ + 1]]
  /\ at_start' = [at_start EXCEPT ![r] = Some([db |-> db, quiet |-> pending = {}])]
  /\ UNCHANGED <<db, pending, clock, source, catalog, log, fp, cmd>>

\* seed_leaderboards_only, once no flow is running and the earlier writes are
\* settled.
LeaderboardsOnly(r) ==
  /\ \A q \in RunIds : ~Active(q)
  /\ pending = {}
  /\ StartBoards(r)
  /\ UNCHANGED sched

\* The freshness decision applied to the cached bar set drawn.
FpDecide ==
  /\ fp.decision = None
  /\ fp' = [fp EXCEPT !.decision = Some(Decide(fp.existing_bars))]
  /\ UNCHANGED <<db, pending, runs, clock, source, catalog, at_start, log, sched, cmd>>

\* The metrics record computed from the cached bar set drawn.
FpCompute ==
  /\ fp.metrics = None
  /\ fp.existing_bars # <<>>
  /\ fp' = [fp EXCEPT !.metrics = Some(ComputeMetrics(1, fp.existing_bars, clock))]
  /\ UNCHANGED <<db, pending, runs, clock, source, catalog, at_start, log, sched, cmd>>

\* The cached bars read, as the collection they were read from.
AsCollection(existing_bars) ==
  [key \in {<<existing_bars[k].instrumentId, existing_bars[k].date>> :
              k \in 1..Len(existing_bars)}
     |-> <<Bar(key[1], key[2])>>]

\* The bar upserts a reload may find applied, of n issued oldest row first: all
\* of them, all but the one of the most recent row, or none.
AppliedChoices(n) == {k \in {0, n - 1, n} : k >= 0}

\* exec of one task over the cached bar set drawn and a source with a row for
\* every day: the fetch is decided, the rows of the span are upserted, the cache
\* is read again with the first upserts applied, and the metrics are
\* computed from the bars found; stored_len counts the instrument's bars once
\* every upsert is applied.
FpTask ==
  /\ fp.decision = None
  /\ LET decision == Decide(fp.existing_bars)
         rows == IF decision.need_fetch
                 THEN DownloadFrom(DailyHistory, 1, decision.fetch_period) ELSE <<>>
         ws == [k \in 1..Len(rows) |-> BarWrite(rows[k], 1)]
         cache == [daily_bars |-> AsCollection(fp.existing_bars)]
     IN  \E applied \in AppliedChoices(Len(rows)) :
           LET seen == ApplyAll(cache, SubSeq(ws, 1, applied))
               daily_bars == IF decision.need_fetch THEN ReadRecent(seen.daily_bars, 1)
                             ELSE fp.existing_bars
           IN  fp' = [fp EXCEPT
                        !.decision = Some(decision),
                        !.rows = Len(rows),
                        !.used_len = Len(daily_bars),
                        !.stored_len = Cardinality(DOMAIN ApplyAll(cache, ws).daily_bars),
                        !.metrics = IF daily_bars = <<>> THEN None
                                    ELSE Some(ComputeMetrics(1, daily_bars, clock))]
  /\ UNCHANGED <<db, pending, runs, clock, source, catalog, at_start, log, sched, cmd>>

\* ----------------------------------------------------------------- commands
\* What a command does in the dispatcher: its handler returns a result, its
\* handler raises, or its name is not in COMMAND_REGISTRY.
CommandKinds == {"ok", "raises", "unknown"}

\* The signals that may end the subprocess: SIGHUP and SIGKILL. Popen.returncode
\* is then the negated signal number.
KillSignals == {1, 9}

StoreUnchanged == UNCHANGED <<db, pending, runs, clock, source, catalog, at_start, log, fp, sched>>

\* A route creates the command and the task that processes it: the document is
\* inserted with exit_state -1.
create_command(c, kind) ==
  /\ ~cmd[c].created
  /\ \A b \in CommandIds : b < c => cmd[b].created
  /\ cmd' = [cmd EXCEPT ![c] = [NoCommand EXCEPT !.created = TRUE, !.kind = kind,
                                                 !.exit_state = 0 - 1, !.manager = "task"]]
  /\ StoreUnchanged

\* process_command up to the wait for the subprocess: started_at is set and
\* me_shell.py is started; or the start raises, and the handler of the
\* exception stores exit_state 2 and returns.
ProcessStart(c) ==
  /\ cmd[c].manager = "task"
  /\ \E raises \in BOOLEAN :
       cmd' = [cmd EXCEPT ![c] =
                 IF raises
                 THEN [@ EXCEPT !.started_at = TRUE, !.exit_state = 2, !.stderr = "manager",
                                !.completed_at = TRUE, !.manager = "returned", !.result = 2]
                 ELSE [@ EXCEPT !.started_at = TRUE, !.manager = "waiting",
                                !.shell = "running"]]
  /\ StoreUnchanged

\* me_shell.py main up to the end of the handler: an unknown command leaves by
\* sys.exit(1), which except Exception does not catch, so nothing is stored.
ShellHandle(c) ==
  /\ cmd[c].shell = "running"
  /\ cmd' = [cmd EXCEPT ![c] =
               CASE cmd[c].kind = "unknown" -> [@ EXCEPT !.shell = "exited", !.returncode = 1]
                 [] cmd[c].kind = "ok" -> [@ EXCEPT !.shell = "handled"]
                 [] cmd[c].kind = "raises" -> [@ EXCEPT !.shell = "raised"]]
  /\ StoreUnchanged

\* me_shell.py main stores the outcome: exit_state 0 with the result, or
\* exit_state 1 with the traceback; the update of the error may itself fail.
ShellStore(c) ==
  /\ cmd[c].shell \in {"handled", "raised"}
  /\ \E update_fails \in BOOLEAN :
       cmd' = [cmd EXCEPT ![c] =
                 IF cmd[c].shell = "handled"
                 THEN IF update_fails
                      THEN [@ EXCEPT !.shell = "raised"]
                      ELSE [@ EXCEPT !.exit_state = 0, !.stdout = "result",
                                     !.stderr = "none", !.shell = "stored"]
                 ELSE IF update_fails
                      THEN [@ EXCEPT !.shell = "failed"]
                      ELSE [@ EXCEPT !.exit_state = 1, !.stdout = "none",
                                     !.stderr = "traceback", !.shell = "failed"]]
  /\ StoreUnchanged

\* The subprocess ends: with status 0 at the end of main, with status 1 by
\* sys.exit(1).
ShellExit(c) ==
  /\ cmd[c].shell \in {"stored", "failed"}
  /\ cmd' = [cmd EXCEPT ![c] = [@ EXCEPT !.shell = "exited",
                                         !.returncode = IF cmd[c].shell = "stored" THEN 0 ELSE 1]]
  /\ StoreUnchanged

\* The subprocess is ended by a signal.
ShellKilled(c, sig) ==
  /\ cmd[c].shell \in {"running", "handled", "raised", "stored", "failed"}
  /\ cmd' = [cmd EXCEPT ![c] = [@ EXCEPT !.shell = "exited", !.returncode = 0 - sig]]
  /\ StoreUnchanged

\* process_command after communicate(): a status other than 0 is stored as
\* exit_state with the stderr of the subprocess, completed_at is set, and the
\* document read back gives the result.
ProcessFinish(c) ==
  /\ cmd[c].manager = "waiting"
  /\ cmd[c].shell = "exited"
  /\ LET exit_state == cmd[c].returncode
         final == IF exit_state = 0 THEN cmd[c].exit_state ELSE exit_state
     IN  cmd' = [cmd EXCEPT ![c] =
                   [@ EXCEPT !.exit_state = final,
                             !.stderr = IF exit_state = 0 THEN @ ELSE "subprocess",
                             !.completed_at = TRUE, !.manager = "returned",
                             !.result = final]]
  /\ StoreUnchanged

\* The client polls GET /command/{command_id} and reads exit_state.
get_command_endpoint(c) ==
  /\ cmd[c].created
  /\ cmd' = [cmd EXCEPT ![c] =
               [@ EXCEPT !.seen_final = @ \/ cmd[c].exit_state # 0 - 1,
                         !.seen_running_after =
                           @ \/ (cmd[c].seen_final /\ cmd[c].exit_state = 0 - 1)]]
  /\ StoreUnchanged

\* ---------------------------------------------------------------- scheduler
\* A seed that is run whatever the stored date says.
DueAlways(last_run_date, today) == last_run_date # Some(today) \/ last_run_date # None

\* run_daily_seed_if_due goes on past its early return: the stored last_run_date,
\* None without a job_runs document, differs from today's date.
Due(last_run_date, today) == last_run_date # Some(today)

\* run_daily_seed_if_due up to its first suspension inside a seed: the date is
\* taken, the job state is read, and either the call returns False or the price
\* seed starts.
SchedCheck ==
  /\ sched.pc = "sleep"
  /\ IF Due(sched.last_run_date, sched.now)
     THEN /\ \E r \in RunIds : StartRun(r) /\ sched' = [sched EXCEPT !.pc = "prices", !.today = sched.now, !.prices = r,
                                      !.run = r, !.returned = None, !.failed = FALSE]
     ELSE /\ sched' = [sched EXCEPT !.today = sched.now, !.returned = Some(FALSE),
                                      !.failed = FALSE]
          /\ UNCHANGED <<db, pending, runs, clock, source, catalog, at_start, log, fp, cmd>>

\* seed_instrument_prices has returned and seed_leaderboards_only starts, or the
\* price seed raised: the exception leaves run_daily_seed_if_due, seed_loop logs
\* it and sleeps.
SchedAfterPrices ==
  /\ sched.pc = "prices"
  /\ \/ /\ runs[sched.run].phase = "done"
        /\ \E r \in RunIds : StartBoards(r) /\ sched' = [sched EXCEPT !.pc = "boards", !.run = r]
     \/ /\ runs[sched.run].phase = "aborted"
        /\ sched' = [sched EXCEPT !.pc = "sleep", !.failed = TRUE]
        /\ UNCHANGED <<db, pending, runs, clock, source, catalog, at_start, log, fp, cmd>>

\* An awaited database call of the leaderboard seed raises: the flow stops, the
\* exception leaves run_daily_seed_if_due before _set_job_state.
SchedRaise ==
  /\ sched.pc = "boards"
  /\ runs[sched.run].phase = "agg"
  /\ runs[sched.run].agg = AggFirst
  /\ runs[sched.run].finds = 0
  /\ sched.raised < MaxRaises
  /\ runs' = [runs EXCEPT ![sched.run] = [@ EXCEPT !.phase = "aborted"]]
  /\ sched' = [sched EXCEPT !.pc = "sleep", !.failed = TRUE, !.raised = @ + 1]
  /\ UNCHANGED <<db, pending, clock, source, catalog, at_start, log, fp, cmd>>

\* seed_leaderboards_only has returned: _set_job_state stores the date taken at
\* the start of the call, and the call returns True.
SchedRecord ==
  /\ sched.pc = "boards"
  /\ runs[sched.run].phase = "done"
  /\ sched' = [sched EXCEPT !.pc = "sleep", !.last_run_date = Some(sched.today),
                            !.returned = Some(TRUE), !.seeded = Append(@, sched.today)]
  /\ UNCHANGED <<db, pending, runs, clock, source, catalog, at_start, log, fp, cmd>>

\* The UTC date changes.
SchedMidnight ==
  /\ sched.now < Today + SchedDays - 1
  /\ sched' = [sched EXCEPT !.now = @ + 1]
  /\ UNCHANGED <<db, pending, runs, clock, source, catalog, at_start, log, fp, cmd>>

\* Between two checks the flows and Memory objects of the call that ended are
\* gone, and the server has settled their writes.
ForgetFlows ==
  /\ sched.pc = "sleep"
  /\ pending = {}
  /\ \E r \in RunIds : runs[r].phase # "idle"
  /\ runs' = [r \in RunIds |-> IdleRun]
  /\ log' = [r \in RunIds |-> [i \in Instruments |-> NoTask]]
  /\ at_start' = [r \in RunIds |-> None]
  /\ UNCHANGED <<db, pending, clock, source, catalog, fp, sched, cmd>>

\* ----------------------------------------------------------- specifications
Next ==
  \/ \E r \in RunIds : FirstRun(r)
  \/ \E r \in RunIds : \E i \in Instruments : TaskRead(r, i)
  \/ \E r \in RunIds : TaskReload(r)
  \/ \E r \in RunIds : AggStep(r)
  \/ \E w \in pending : ApplyWrite(w)

\* One invocation of the pipeline, from every cache and source of the bounds.
Spec == Init /\ [][Next]_vars

NextRerun ==
  \/ Next
  \/ \E r \in RunIds : Rerun(r)

\* Invocations in succession.
SpecRerun == InitSmall /\ [][NextRerun]_vars

NextResume ==
  \/ Next
  \/ \E r \in RunIds : Rerun(r)
  \/ \E r \in RunIds : Interrupt(r)
  \/ \E w \in pending : DropWrite(w)

\* An invocation interrupted at any point, then invocations in succession.
SpecResume == InitSmall /\ [][NextResume]_vars

NextOverlap ==
  \/ \E r \in RunIds : FirstRun(r)
  \/ \E r \in RunIds : OverlappingRun(r)
  \/ \E r \in RunIds : \E i \in Instruments : TaskRead(r, i)
  \/ \E r \in RunIds : TaskReload(r)
  \/ \E w \in pending : ApplyWrite(w)
  \/ \E w1 \in pending : \E w2 \in pending : ApplyRacing(w1, w2)

\* Invocations that overlap in time, each followed up to its barrier.
SpecOverlap == InitSmall /\ [][NextOverlap]_vars

\* One invocation over a catalog of no or one instrument.
InitAnyCatalog == InitWith(0..1, {"empty", "partial"})

SpecAnyCatalog == InitAnyCatalog /\ [][Next]_vars

\* The aggregation of the invocation started last, once the tasks of the earlier
\* ones have ended; the earlier invocations are followed up to their barrier.
LaterAggregation(r) ==
  /\ r = MaxRuns
  /\ \A q \in RunIds : q < r => runs[q].phase # "tasks"
  /\ AggStep(r)

\* One instrument whose cache holds the oldest row only and whose source answers
\* with rows.
InitOverlapBoards == InitWith({1}, {"partial"}) /\ source = [i \in {1} |-> "rows"]

NextOverlapBoards ==
  \/ NextOverlap
  \/ \E r \in RunIds : LaterAggregation(r)

\* Invocations that overlap in time, the later one followed through its
\* aggregation.
SpecOverlapBoards == InitOverlapBoards /\ [][NextOverlapBoards]_vars

\* The cached bar sets the freshness decision is applied to: n bars, the most
\* recent one age days old.
FreshLens == {0, 1, LongestWindow - 1, LongestWindow, LongestWindow + 1, ReadLimit}

InitFresh ==
  /\ catalog = {}
  /\ source = <<>>
  /\ db = [daily_bars |-> EmptyCollection, daily_metrics |-> EmptyCollection,
           leaderboards |-> EmptyCollection]
  /\ at_start = [r \in RunIds |-> None]
  /\ pending = {}
  /\ runs = [r \in RunIds |-> IdleRun]
  /\ clock = 1
  /\ log = [r \in RunIds |-> [i \in Instruments |-> NoTask]]
  /\ sched = NoSchedule
  /\ cmd = NoCommands
  /\ \E n \in FreshLens : \E age \in 0..MaxDaysOld :
       fp = [n |-> n, age |-> IF n = 0 THEN 0 ELSE age,
             existing_bars |-> CachedBars(1, n, age), decision |-> None,
             metrics |-> None, rows |-> 0, used_len |-> 0, stored_len |-> 0]

NextFresh == FpDecide

SpecFresh == InitFresh /\ [][NextFresh]_vars

NextHistory == FpTask

\* One task over every cached bar set of the freshness decision and a source
\* that supplies a row for every day.
SpecHistory == InitFresh /\ [][NextHistory]_vars

\* The bars an earlier run computed an instrument's metrics from, the latest one
\* age days before the execution date: two bars, or one bar whose low is 0.
EarlierBars(i, age, kind) ==
  IF kind = "zero_low" THEN <<[Bar(i, Today - age) EXCEPT !.low = 0]>>
  ELSE CachedBars(i, 2, age)

\* What daily_metrics holds of one instrument: nothing, or the record of one of
\* the candidate dates or of the day before the oldest of them.
MetricsChoices(i) ==
  {<<>>} \cup {<<ComputeMetrics(i, EarlierBars(i, age, kind), 0)>> :
                 age \in 0..NumDateTries, kind \in {"priced", "zero_low"}}

MetricsOf(choice) ==
  LET held == {i \in DOMAIN choice : choice[i] # <<>>}
      keys == {<<i, choice[i][1].date>> : i \in held}
  IN  [key \in keys |-> choice[key[1]]]

InitBoards ==
  /\ catalog = Instruments
  /\ source = [i \in catalog |-> "rows"]
  /\ \E choice \in [Instruments -> UNION {MetricsChoices(i) : i \in Instruments}] :
       /\ \A i \in Instruments : choice[i] \in MetricsChoices(i)
       /\ db = [daily_bars |-> EmptyCollection, daily_metrics |-> MetricsOf(choice),
                leaderboards |-> EmptyCollection]
  /\ at_start = [r \in RunIds |-> None]
  /\ pending = {}
  /\ runs = [r \in RunIds |-> IdleRun]
  /\ clock = 1
  /\ log = [r \in RunIds |-> [i \in Instruments |-> NoTask]]
  /\ fp = NoDecision
  /\ sched = NoSchedule
  /\ cmd = NoCommands

NextBoards ==
  \/ \E r \in RunIds : LeaderboardsOnly(r)
  \/ \E r \in RunIds : AggStep(r)
  \/ \E w \in pending : ApplyWrite(w)

\* Aggregations in succession over the metrics of earlier runs.
SpecBoards == InitBoards /\ [][NextBoards]_vars

\* A bar of a series: open and close equal, the high and the low given.
SeriesBar(d, close, lo, hi) ==
  [instrumentId |-> 1, date |-> d, open |-> close, high |-> hi, low |-> lo,
   close |-> close, volume |-> 100 + close]

\* The bars a short series is made of: three ordinary ones, one whose low is 0
\* and one whose prices are all 0.
BarKinds ==
  {[close |-> 10, low |-> 9, high |-> 11], [close |-> 12, low |-> 11, high |-> 13],
   [close |-> 15, low |-> 14, high |-> 16], [close |-> 11, low |-> 0, high |-> 12],
   [close |-> 0, low |-> 0, high |-> 0]}

\* A series given oldest first, as the cursor returns it: most recent first.
AsRead(series) ==
  [k \in 1..Len(series) |->
     LET b == series[Len(series) + 1 - k]
     IN  SeriesBar(Today - (k - 1), b.close, b.low, b.high)]

ShortSeries == UNION {[1..n -> BarKinds] : n \in 1..MaxSeries}

ExampleSeries ==
  [k \in 1..5 |-> LET c == <<10, 12, 11, 13, 15>>[k]
                  IN  [close |-> c, low |-> c - 1, high |-> c + 1]]

\* Long histories: closes rising by 1 every 10 bars, or all equal.
Rising(n) == [k \in 1..n |-> LET c == 10 + (k \div 10)
                             IN  [close |-> c, low |-> c - 1, high |-> c + 1]]

Flat(n) == [k \in 1..n |-> [close |-> 10, low |-> 9, high |-> 11]]

LongSeries == {Rising(199), Rising(200), Rising(LongestWindow), Flat(200), Flat(99), Rising(50)}

InitMetrics ==
  /\ catalog = {}
  /\ source = <<>>
  /\ db = [daily_bars |-> EmptyCollection, daily_metrics |-> EmptyCollection,
           leaderboards |-> EmptyCollection]
  /\ at_start = [r \in RunIds |-> None]
  /\ pending = {}
  /\ runs = [r \in RunIds |-> IdleRun]
  /\ clock = 1
  /\ log = [r \in RunIds |-> [i \in Instruments |-> NoTask]]
  /\ sched = NoSchedule
  /\ cmd = NoCommands
  /\ \E series \in ShortSeries \cup {ExampleSeries} \cup LongSeries :
       fp = [n |-> Len(series), age |-> 0, existing_bars |-> AsRead(series),
             decision |-> None, metrics |-> None, rows |-> 0, used_len |-> 0,
             stored_len |-> 0]

NextMetrics == FpCompute

\* The metrics computation applied to bar series.
SpecMetrics == InitMetrics /\ [][NextMetrics]_vars

\* The scheduler with a job_runs document of yesterday, of today, or none, over
\* no or one instrument.
InitSched ==
  /\ StoreWith(0..1, {"empty", "partial"})
  /\ \E d \in {None, Some(Today - 1), Some(Today)} :
       sched = [NoSchedule EXCEPT !.last_run_date = d, !.first = d]

NextSched ==
  \/ SchedCheck
  \/ SchedAfterPrices
  \/ SchedRaise
  \/ SchedRecord
  \/ SchedMidnight
  \/ ForgetFlows
  \/ \E r \in RunIds : \E i \in Instruments : TaskRead(r, i)
  \/ \E r \in RunIds : TaskReload(r)
  \/ \E r \in RunIds : AggStep(r)
  \/ \E w \in pending : ApplyWrite(w)

\* The checks of seed_loop, one after the other under _seed_lock.
SpecSched == InitSched /\ [][NextSched]_vars

InitCommands == InitWith({1}, {"empty"}) /\ source = [i \in {1} |-> "rows"]

NextCommands ==
  \/ \E c \in CommandIds : \E kind \in CommandKinds : create_command(c, kind)
  \/ \E c \in CommandIds : ProcessStart(c)
  \/ \E c \in CommandIds : ShellHandle(c)
  \/ \E c \in CommandIds : ShellStore(c)
  \/ \E c \in CommandIds : ShellExit(c)
  \/ \E c \in CommandIds : \E sig \in KillSignals : ShellKilled(c, sig)
  \/ \E c \in CommandIds : ProcessFinish(c)
  \/ \E c \in CommandIds : get_command_endpoint(c)

\* Commands created by the routes, processed by their tasks and polled.
SpecCommands == InitCommands /\ [][NextCommands]_vars

\* ------------------------------------------------------------------ claims
Ended(r) == runs[r].phase \in {"done", "aborted"}

\* C1: in every run over N >= 1 instruments the body of ComputeLeaderboards.exec
\* executes exactly once: never zero times once the run has ended, never more
\* than once, and not before every task has returned.
C1_ComputedExactlyOnce ==
  \A r \in RunIds :
    /\ runs[r].computed <= 1
    /\ runs[r].computed >= 1 => \A i \in catalog : log[r][i].task = "returned"
    /\ Ended(r) => runs[r].computed = 1

\* C2: every task that has ended, by returning or by raising, has decremented
\* batches_nb exactly once, so that the counter is zero when the run has ended.
C2_DecrementedOncePerTask ==
  \A r \in RunIds :
    /\ \A i \in catalog :
         log[r][i].task \in {"returned", "raised"} => log[r][i].decrements = 1
    /\ Ended(r) => runs[r].batches_nb = 0

\* C3: when one task of a run over N >= 2 instruments fails, the run has not
\* ended before every other instrument's task has returned and the leaderboards
\* have been computed.
C3_SiblingsSurviveFailure ==
  \A r \in RunIds :
    (/\ Cardinality(catalog) >= 2
     /\ Ended(r)
     /\ \E i \in catalog : log[r][i].task = "raised")
    => /\ \A i \in catalog : log[r][i].task \in {"returned", "raised"}
       /\ runs[r].computed = 1

\* C4: when the aggregation of a run makes its first find on daily_metrics, no
\* metrics upsert of that run is still in flight.
C4_MetricsAppliedBeforeAggregation ==
  \A r \in RunIds : runs[r].finds > 0 => runs[r].unapplied_at_find = 0

\* C5: when a task that fetched reads the cache again, none of its bar upserts
\* is still in flight, so the bars it uses end with the most recent row fetched.
C5_BarsAppliedBeforeReload ==
  \A r \in RunIds : \A i \in catalog :
    log[r][i].reads = 2 => log[r][i].unapplied_at_reload = 0

\* The decision the specification describes for n cached bars, the most recent
\* one daysOld days old.
C6_Described(n, daysOld) ==
  IF n = 0 THEN [need_fetch |-> TRUE, unit |-> "y", span |-> 1]
  ELSE IF daysOld > 1
  THEN [need_fetch |-> TRUE, unit |-> "d",
        span |-> IF daysOld + 5 < 30 THEN daysOld + 5 ELSE 30]
  ELSE IF n < 252 THEN [need_fetch |-> TRUE, unit |-> "y", span |-> 1]
  ELSE [need_fetch |-> FALSE, unit |-> "y", span |-> 1]

\* C6: the freshness decision: an empty cache fetches the full lookback (1y); a
\* most recent bar more than 1 day old fetches min(daysOld + 5, 30) days whatever
\* the number of bars; else fewer than 252 bars fetch the full lookback; else
\* nothing is fetched.
C6_FreshnessDecision ==
  fp.decision # None =>
    LET described == C6_Described(fp.n, fp.age)
        decided == fp.decision[1]
    IN  /\ decided.need_fetch = described.need_fetch
        /\ decided.need_fetch =>
             /\ decided.fetch_period.unit = described.unit
             /\ decided.fetch_period.n = described.span

\* A stale and short history was given the short top-up.
C6_Witness ==
  /\ fp.decision # None
  /\ fp.n = 1
  /\ fp.age = 3
  /\ fp.decision[1].fetch_period = [unit |-> "d", n |-> 8]

\* The bars of one instrument are those the run started from.
BarsUntouched(r, i) ==
  \A k \in DOMAIN db.daily_bars \cup DOMAIN at_start[r][1].db.daily_bars :
    k[1] = i => DocsAt(db.daily_bars, k) = DocsAt(at_start[r][1].db.daily_bars, k)

\* C7: a task that reads at least 252 bars, the most recent at most 1 day old,
\* downloads nothing and issues no bar upsert: the instrument's bars stay as
\* they were and the metrics are those of the bars read, without a second read.
C7_FreshCacheUsedAsIs ==
  \A r \in RunIds : \A i \in catalog :
    (/\ log[r][i].task # "none"
     /\ log[r][i].read_len >= 252
     /\ Today - log[r][i].read_latest <= 1)
    => /\ log[r][i].task = "returned"
       /\ log[r][i].downloads = 0
       /\ log[r][i].bar_writes = 0
       /\ log[r][i].reads = 1
       /\ log[r][i].used_len = log[r][i].read_len
       /\ log[r][i].metrics # None
       /\ log[r][i].metrics[1].date = log[r][i].read_latest
       /\ log[r][i].metrics[1].last_price = Bar(i, log[r][i].read_latest).close
       /\ \A w \in pending : w.coll = "daily_bars" => w.key[1] # i
       /\ BarsUntouched(r, i)

\* A run has ended whose task read a fresh cache of at least 252 bars.
C7_Witness ==
  \E r \in RunIds : \E i \in catalog :
    /\ runs[r].phase = "done"
    /\ log[r][i].read_len >= 252
    /\ Today - log[r][i].read_latest <= 1
    /\ log[r][i].metrics # None

\* C8: daily_bars and daily_metrics hold at most one record per
\* (instrumentId, date), also when runs overlap.
C8_OneRecordPerKey ==
  /\ \A k \in DOMAIN db.daily_bars : Len(db.daily_bars[k]) <= 1
  /\ \A k \in DOMAIN db.daily_metrics : Len(db.daily_metrics[k]) <= 1

\* C9: a second run in succession over the same source data leaves the three
\* collections as they were after the first run.
C9_SecondRunChangesNothing ==
  (/\ runs[1].phase = "done"
   /\ runs[2].phase = "done"
   /\ pending = {}
   /\ at_start[2][1].quiet)
  => db = at_start[2][1].db

\* The bar upserts of a run that nothing interrupts, from the bars it starts
\* from: per instrument, the rows of the span its freshness decision requests.
RECURSIVE UninterruptedWrites(_, _)
UninterruptedWrites(bars, i) ==
  IF i > MaxInstruments THEN <<>>
  ELSE LET decision == Decide(ReadRecent(bars, i))
           rows == Download(i, decision.fetch_period)
       IN  (IF i \in catalog /\ decision.need_fetch /\ source[i] = "rows"
            THEN [k \in 1..Len(rows) |-> BarWrite(rows[k], 1)] ELSE <<>>)
           \o UninterruptedWrites(bars, i + 1)

UninterruptedBars ==
  LET before == at_start[1][1].db
  IN  ApplyAll(before, UninterruptedWrites(before.daily_bars, 1)).daily_bars

\* C10: a run interrupted at any point and then run again to completion leaves
\* the bars a single uninterrupted run leaves.
C10_ResumedRunConverges ==
  (/\ runs[1].phase = "interrupted"
   /\ runs[2].phase = "done"
   /\ pending = {})
  => db.daily_bars = UninterruptedBars

\* The series of the bars read, oldest first.
Ascending(existing_bars) ==
  [k \in 1..Len(existing_bars) |-> existing_bars[Len(existing_bars) + 1 - k]]

\* The fields of the window of n bars labelled label, in the record m computed
\* from the series asc, are those of its last min(n, Len(asc)) bars.
C17_WindowHolds(m, asc, n, label) ==
  LET len == Len(asc)
      cnt == IF n < len THEN n ELSE len
      highs == {asc[k].high : k \in (len - cnt + 1)..len}
      lows == {asc[k].low : k \in (len - cnt + 1)..len}
      hi == CHOOSE h \in highs : \A x \in highs : x <= h
      lo == CHOOSE l \in lows : \A x \in lows : l <= x
      lastPrice == asc[len].close
      pctLow == m["change_pct_from_low_" \o label]
      pctHigh == m["change_pct_from_high_" \o label]
  IN  /\ {"high_" \o label, "low_" \o label, "change_from_low_" \o label,
          "change_from_high_" \o label, "change_pct_from_low_" \o label,
          "change_pct_from_high_" \o label} \subseteq DOMAIN m
      /\ m["high_" \o label] = hi
      /\ m["low_" \o label] = lo
      /\ m["change_from_low_" \o label] = lastPrice - lo
      /\ m["change_from_high_" \o label] = lastPrice - hi
      /\ (pctLow = None) <=> (lo = 0)
      /\ (pctHigh = None) <=> (hi = 0)
      /\ lo # 0 => /\ pctLow[1].den # 0
                   /\ pctLow[1].num * lo = (lastPrice - lo) * 100 * pctLow[1].den
      /\ hi # 0 => /\ pctHigh[1].den # 0
                   /\ pctHigh[1].num * hi = (lastPrice - hi) * 100 * pctHigh[1].den

\* C17: for every non-empty bar series and every window n of 5, 21, 42, 63,
\* 126, 252 the metrics record holds the window's six fields, computed over the
\* last min(n, len) bars: high, low, the two changes, and the two percentages,
\* null exactly when their base is 0.
C17_WindowFieldsOverShortSeries ==
  fp.metrics # None =>
    \A w \in {<<5, "5d">>, <<21, "1M">>, <<42, "2M">>, <<63, "3M">>, <<126, "6M">>,
               <<252, "52w">>} :
      C17_WindowHolds(fp.metrics[1], Ascending(fp.existing_bars), w[1], w[2])

\* Metrics were computed for 3 bars, one with a low of 0: the 5d window covers
\* the 3 bars and its percentage from the low is null.
C17_Witness ==
  /\ fp.metrics # None
  /\ fp.n = 3
  /\ fp.metrics[1]["high_5d"] = 16
  /\ fp.metrics[1]["low_5d"] = 0
  /\ fp.metrics[1]["change_pct_from_low_5d"] = None
  /\ fp.metrics[1]["change_pct_from_high_5d"] # None

\* C18: ma50, ma100 and ma200 are the mean of the closes of the trailing 50, 100
\* and 200 bars when that many bars were read, and null when fewer were.
C18_MovingAveragesNullWhenShort ==
  fp.metrics # None =>
    \A w \in {<<50, "ma50">>, <<100, "ma100">>, <<200, "ma200">>} :
      LET v == fp.metrics[1][w[2]]
          asc == Ascending(fp.existing_bars)
      IN  IF fp.n >= w[1]
          THEN /\ v # None
               /\ v[1].den # 0
               /\ v[1].num * w[1] = SumCloses(asc, fp.n - w[1] + 1, fp.n) * v[1].den
          ELSE v = None

\* The float is a number.
C19_Defined(v) == v # None /\ v[1].den # 0

C19_Below(x, y) == x[1].num * y[1].den < y[1].num * x[1].den

\* C19: stacked_ma_trend is true exactly when ma50, ma100, ma200 and ema20 are
\* all defined and ma200 < ma100 < ma50 < ema20 < last_price, each strictly; it
\* is false for fewer than 200 bars.
C19_StackedTrend ==
  fp.metrics # None =>
    LET m == fp.metrics[1]
        defined == /\ C19_Defined(m.ma50)
                   /\ C19_Defined(m.ma100)
                   /\ C19_Defined(m.ma200)
                   /\ C19_Defined(m.ema20)
    IN  /\ m.stacked_ma_trend \in BOOLEAN
        /\ m.stacked_ma_trend <=>
             (/\ defined
              /\ C19_Below(m.ma200, m.ma100)
              /\ C19_Below(m.ma100, m.ma50)
              /\ C19_Below(m.ma50, m.ema20)
              /\ m.ema20[1].num < m.last_price * m.ema20[1].den)
        /\ fp.n < 200 => ~m.stacked_ma_trend

\* A history of at least 200 rising bars has the trend.
C19_Witness ==
  /\ fp.metrics # None
  /\ fp.n >= 200
  /\ fp.metrics[1].stacked_ma_trend

RECURSIVE C20_Pow(_, _)
C20_Pow(b, e) == IF e = 0 THEN 1 ELSE b * C20_Pow(b, e - 1)

\* The recursion ema = prev + 2/21 * (close - prev) from the first close, unrolled:
\* the numerator of the value after n bars over the denominator 21^(n-1).
RECURSIVE C20_Unrolled(_, _, _)
C20_Unrolled(asc, n, j) ==
  IF j = 1 THEN C20_Pow(19, n - 1) * asc[1].close
  ELSE 2 * C20_Pow(19, n - j) * C20_Pow(21, j - 2) * asc[j].close
       + C20_Unrolled(asc, n, j - 1)

\* C20: ema20 is the recursive exponential average of the ascending closes with
\* alpha = 2/21, seeded with the first close: exactly that value up to 5 bars,
\* and within the stored resolution for 6 and 7 bars.
C20_EmaRecursive ==
  (fp.metrics # None /\ fp.n <= 7) =>
    LET ema == fp.metrics[1].ema20[1]
        n == fp.n
        exact == C20_Unrolled(Ascending(fp.existing_bars), n, n)
    IN  /\ ema.den = 21 * 21 * 21 * 21
        /\ IF n <= 5
           THEN ema.num = exact * C20_Pow(21, 5 - n)
           ELSE LET up == C20_Pow(21, n - 5)
                    diff == ema.num * up - exact
                IN  /\ diff <= 0
                    /\ 0 - diff <= n * up

\* The closes 10, 12, 11, 13, 15 give 2130292 / 194481, about 10.95, and not
\* their plain average 12.2.
C20_Witness ==
  /\ fp.metrics # None
  /\ fp.n = 5
  /\ \A k \in 1..5 : fp.existing_bars[6 - k].close = <<10, 12, 11, 13, 15>>[k]
  /\ fp.metrics[1].ema20 = Some([num |-> 2130292, den |-> 194481])

\* C16: a task that finds no bar in the cache after the optional fetch writes
\* no daily_metrics record, raises nothing, returns, and is counted once towards
\* the barrier.
C16_EmptyCacheSkipped ==
  \A r \in RunIds : \A i \in catalog :
    (log[r][i].task # "none" /\ log[r][i].task # "running"
     /\ log[r][i].reads >= 1 /\ log[r][i].used_len = 0 /\ source[i] # "malformed")
    => /\ log[r][i].task = "returned"
       /\ log[r][i].metrics = None
       /\ log[r][i].decrements = 1
       /\ \A k \in DOMAIN db.daily_metrics : k[1] # i
       /\ \A w \in pending : w.coll = "daily_metrics" => w.key[1] # i
       /\ runs[r].phase = "aborted" => \E j \in catalog : log[r][j].task = "raised"
       /\ runs[r].phase = "done" => runs[r].computed = 1

\* A run has ended in which a task fetched, got no row for an empty cache, and
\* was skipped.
C16_Witness ==
  \E r \in RunIds : \E i \in catalog :
    /\ source[i] = "empty"
    /\ log[r][i].task = "returned"
    /\ log[r][i].downloads = 1
    /\ log[r][i].reads = 2
    /\ log[r][i].used_len = 0
    /\ runs[r].phase = "done"
    /\ runs[r].computed = 1

\* The boards written so far: those stored and those whose upsert is in flight.
BoardsWritten ==
  {db.leaderboards[k][n] : k \in DOMAIN db.leaderboards, n \in {1}}
  \cup {w.fields : w \in {x \in pending : x.coll = "leaderboards"}}

\* The execution date and the three calendar days before it.
CandidateDates == {Today, Today - 1, Today - 2, Today - 3}

BoardKey(b) ==
  IF b.type = "high" THEN "change_pct_from_low_" \o b.period
  ELSE IF b.type = "low" THEN "change_pct_from_high_" \o b.period
  ELSE "volume"

\* The instruments with a daily_metrics record of the date whose key is not null.
Ranked(date, key) ==
  {i \in Instruments :
     /\ <<i, date>> \in DOMAIN db.daily_metrics
     /\ IF key = "volume" THEN db.daily_metrics[<<i, date>>][1].volume \in Int
        ELSE db.daily_metrics[<<i, date>>][1][key] # None}

DatesWith(key) == {d \in CandidateDates : Ranked(d, key) # {}}

MostRecentWith(key) == CHOOSE d \in DatesWith(key) : \A e \in DatesWith(key) : e <= d

C12_NoBoardWithoutMetrics ==
  \A b \in BoardsWritten :
    b.type \in {"high", "low"} => (DatesWith(BoardKey(b)) # {} /\ b.items # <<>>)

\* x >= y on two optional quotients that are present.
C13_AtLeast(x, y) ==
  IF (x[1].den > 0) = (y[1].den > 0)
  THEN x[1].num * y[1].den >= y[1].num * x[1].den
  ELSE x[1].num * y[1].den <= y[1].num * x[1].den

\* Item a stands before item b in the order of a board of the type.
C13_InOrder(typ, a, b) ==
  CASE typ = "high" -> C13_AtLeast(a.change_pct, b.change_pct)
    [] typ = "low" -> C13_AtLeast(b.change_pct, a.change_pct)
    [] typ = "volume" -> a.volume >= b.volume

\* C13: the items of every board written carry the ranks 1..K in list order,
\* K <= 3600, in the board's order: change_pct non-increasing for type high,
\* non-decreasing for type low, volume non-increasing for the volume board; the
\* item of rank 1 is the extreme of the metrics of the board's date.
C13_RankedInSortOrder ==
  \A b \in BoardsWritten :
    /\ Len(b.items) <= 3600
    /\ \A n \in 1..Len(b.items) : b.items[n].rank = n
    /\ \A n \in 1..(Len(b.items) - 1) : C13_InOrder(b.type, b.items[n], b.items[n + 1])
    /\ \A i \in Ranked(b.date, BoardKey(b)) :
         LET m == db.daily_metrics[<<i, b.date>>][1]
         IN  b.items # <<>> /\
             C13_InOrder(b.type, b.items[1],
                         [change_pct |-> IF b.type = "volume" THEN None ELSE m[BoardKey(b)],
                          volume |-> m.volume])

\* A gainers board of two items was written whose first item is the second
\* instrument of the collection, with a strictly greater percentage.
C13_Witness ==
  \E b \in BoardsWritten :
    /\ b.type = "high"
    /\ Len(b.items) = 2
    /\ b.items[1].instrumentId > b.items[2].instrumentId
    /\ ~C13_AtLeast(b.items[2].change_pct, b.items[1].change_pct)

\* The board most recently computed for the key: that of the latest invocation
\* that issued one.
LatestIssued(key) ==
  LET issuers == {r \in RunIds : key \in DOMAIN runs[r].issued}
      last == CHOOSE r \in issuers : \A q \in issuers : q <= r
  IN  runs[last].issued[key]

\* C14: leaderboards holds one record per (date, period, type), and once the
\* upserts of a key are applied the record is exactly the board of the latest
\* computation for the key: nothing of an earlier board is left.
C14_OneBoardPerKeyReplaced ==
  \A key \in DOMAIN db.leaderboards :
    /\ Len(db.leaderboards[key]) = 1
    /\ (\A w \in pending : w.coll = "leaderboards" => w.key # key)
       => db.leaderboards[key][1] = LatestIssued(key)

\* A second run has ended and replaced a board of the first by one with other
\* items.
C14_Witness ==
  /\ runs[2].phase = "done"
  /\ pending = {}
  /\ \E key \in DOMAIN db.leaderboards :
       /\ key \in DOMAIN at_start[2][1].db.leaderboards
       /\ at_start[2][1].db.leaderboards[key][1].items # <<>>
       /\ at_start[2][1].db.leaderboards[key][1].items # db.leaderboards[key][1].items
       /\ db.leaderboards[key][1] = runs[2].issued[key]

\* C15: in one aggregation the market-movers board is written for one date only,
\* the most recent candidate date with a daily_metrics record, and for no older
\* candidate date.
C15_VolumeBoardOneDate ==
  LET dates == {b.date : b \in {x \in BoardsWritten : x.type = "volume"}}
  IN  /\ Cardinality(dates) <= 1
      /\ dates # {} => dates = {MostRecentWith("volume")}

\* The stored metrics records without their computedAt stamps.
Unstamped(metrics) ==
  [key \in DOMAIN metrics |->
     [n \in 1..Len(metrics[key]) |-> [metrics[key][n] EXCEPT !.computedAt = 0]]]

\* The metrics records of a run in which every task computes from the bars its
\* fetch has stored.
UninterruptedMetrics ==
  LET held == {i \in catalog : ReadRecent(UninterruptedBars, i) # <<>>}
      rec == [i \in held |-> ComputeMetrics(i, ReadRecent(UninterruptedBars, i), 0)]
  IN  [key \in {<<i, rec[i].date>> : i \in held} |-> <<rec[key[1]]>>]

\* C21: once a run is done and its writes are applied, daily_bars and
\* daily_metrics are a function of the collections it started from and of the
\* source data, whatever the order and interleaving of its tasks: the bars are
\* the fetched rows merged into the cache and the metrics, timestamps aside,
\* are those of these bars.
C21_ScheduleIndependent ==
  (runs[1].phase = "done" /\ pending = {})
  => /\ db.daily_bars = UninterruptedBars
     /\ Unstamped(db.daily_metrics) = UninterruptedMetrics

\* The number of documents a collection holds for one instrument.
RecordsOf(coll, i) ==
  Cardinality({<<k, n>> \in UNION {{<<k, n>> : n \in 1..Len(coll[k])} : k \in DOMAIN coll} :
                 k[1] = i})

\* A board with items is stored for the period and type.
BoardStored(period, typ) ==
  \E k \in DOMAIN db.leaderboards :
    \E n \in 1..Len(db.leaderboards[k]) :
      /\ db.leaderboards[k][n].period = period
      /\ db.leaderboards[k][n].type = typ
      /\ db.leaderboards[k][n].items # <<>>

\* C22: a run started from three empty collections, whose source answers every
\* instrument with rows ending on the execution date, has stored, once it is done
\* and its writes are applied, bars and exactly one metrics record for every
\* instrument, and a board with items for every period and type and for the
\* volume.
C22_FreshStartComplete ==
  (/\ runs[1].phase = "done"
   /\ pending = {}
   /\ at_start[1][1].db = [c \in Collections |-> EmptyCollection]
   /\ \A i \in catalog : source[i] = "rows")
  => /\ \A i \in catalog : /\ RecordsOf(db.daily_bars, i) >= 1
                           /\ RecordsOf(db.daily_metrics, i) = 1
     /\ \A l \in 1..Len(Periods) : \A typ \in {"high", "low"} : BoardStored(Periods[l], typ)
     /\ BoardStored("market_movers", "volume")

\* C23: in the full flow and in seed_leaderboards_only alike, batches_nb is never
\* negative, the aggregation starts at most once per run, and it has started
\* only by the decrement that left the counter at 0, where the counter stays.
C23_CounterReachesZeroOnce ==
  \A r \in RunIds :
    /\ runs[r].batches_nb >= 0
    /\ runs[r].computed <= 1
    /\ runs[r].computed = 1 => runs[r].batches_nb = 0

\* C24: a run of the full flow over a catalog of no instrument computes the
\* leaderboards exactly once and ends done.
C24_EmptyCatalogAggregates ==
  \A r \in RunIds :
    (catalog = {} /\ runs[r].phase # "idle")
    => /\ runs[r].phase \in {"agg", "done"}
       /\ runs[r].computed = 1

C26_BarsKept ==
  \A k \in DOMAIN db.daily_bars :
    /\ k \in DOMAIN db'.daily_bars
    /\ Len(db'.daily_bars[k]) >= Len(db.daily_bars[k])
    /\ \A n \in 1..Len(db.daily_bars[k]) :
         \/ db'.daily_bars[k][n] = db.daily_bars[k][n]
         \/ db'.daily_bars[k][n] = Bar(k[1], k[2])

\* C26: no step of the pipeline removes a daily bar: over any sequence of runs
\* the keys of daily_bars only grow, and a bar changes only by being overwritten
\* with a fetched row of its key.
C26_BarsNeverDeleted == [][C26_BarsKept]_vars

\* A second run has ended that fetched again the three rows the first had stored.
C26_Witness ==
  /\ runs[2].phase = "done"
  /\ pending = {}
  /\ log[2][1].bar_writes = 3
  /\ Cardinality(DOMAIN at_start[2][1].db.daily_bars) = 3
  /\ DOMAIN db.daily_bars = DOMAIN at_start[2][1].db.daily_bars

\* Every bar read has 0 < low <= close <= high.
C27_WellFormed(existing_bars) ==
  \A k \in 1..Len(existing_bars) :
    /\ 0 < existing_bars[k].low
    /\ existing_bars[k].low <= existing_bars[k].close
    /\ existing_bars[k].close <= existing_bars[k].high

\* The sign of an optional quotient that is present: -1, 0 or 1.
C27_Sign(pct) ==
  LET p == pct[1].num * pct[1].den IN IF p > 0 THEN 1 ELSE IF p < 0 THEN 0 - 1 ELSE 0

\* C27: in a metrics record computed from bars with 0 < low <= close <= high, for
\* every window the change and the percentage from the low are not negative and
\* those from the high are not positive, and from each window to the next larger
\* one the high does not decrease and the low does not increase.
C27_SignsAndNesting ==
  (fp.metrics # None /\ C27_WellFormed(fp.existing_bars)) =>
    LET m == fp.metrics[1]
    IN  /\ \A k \in 1..Len(Windows) :
             LET label == Windows[k].label
             IN  /\ m["change_from_low_" \o label] >= 0
                 /\ m["change_from_high_" \o label] <= 0
                 /\ m["change_pct_from_low_" \o label] # None
                 /\ m["change_pct_from_high_" \o label] # None
                 /\ C27_Sign(m["change_pct_from_low_" \o label]) >= 0
                 /\ C27_Sign(m["change_pct_from_high_" \o label]) <= 0
        /\ \A k \in 1..(Len(Windows) - 1) :
             /\ m["high_" \o Windows[k].label] <= m["high_" \o Windows[k + 1].label]
             /\ m["low_" \o Windows[k].label] >= m["low_" \o Windows[k + 1].label]

\* Metrics of 6 well-formed bars whose oldest bar holds the highest high: the 1M
\* window reaches it and the 5d window does not, and the last price lies strictly
\* between the 5d low and the 5d high.
C27_Witness ==
  /\ fp.metrics # None
  /\ fp.n = 6
  /\ C27_WellFormed(fp.existing_bars)
  /\ fp.metrics[1]["high_5d"] < fp.metrics[1]["high_1M"]
  /\ fp.metrics[1]["change_from_low_5d"] > 0
  /\ fp.metrics[1]["change_from_high_5d"] < 0

\* C28: in every board written, every item is taken from a daily_metrics record
\* of the date in the board's date field, and no instrument has more than one
\* item.
C28_OneDateOneItemPerInstrument ==
  \A b \in BoardsWritten :
    /\ \A n \in 1..Len(b.items) :
         \E m \in UNION {{db.daily_metrics[k][j] : j \in 1..Len(db.daily_metrics[k])} :
                           k \in {q \in DOMAIN db.daily_metrics : q[2] = b.date}} :
           /\ m.instrumentId = b.items[n].instrumentId
           /\ m.date = b.date
           /\ m.last_price = b.items[n].last_price
           /\ m.volume = b.items[n].volume
    /\ \A x, y \in 1..Len(b.items) :
         b.items[x].instrumentId = b.items[y].instrumentId => x = y

\* C29: run_daily_seed_if_due seeds only when the stored last_run_date is not
\* today's UTC date. What holds of every state: no date is seeded twice through
\* the scheduler; the leaderboard seed starts after the price seed has returned;
\* the date is not stored while a seed is under way; a call that failed part-way
\* leaves a last_run_date other than its date, so the next check of that date
\* seeds again; a call that returned True has stored its date; the stored date is
\* the initial one or that of a completed seed.
C29_RecordedAfterBoth ==
  /\ \A j \in DOMAIN sched.seeded : \A k \in DOMAIN sched.seeded :
       j # k => sched.seeded[j] # sched.seeded[k]
  /\ sched.pc = "boards" => /\ runs[sched.prices].phase = "done"
                            /\ sched.prices < sched.run
  /\ sched.pc # "sleep" => sched.last_run_date # Some(sched.today)
  /\ sched.failed => /\ sched.pc = "sleep"
                     /\ sched.last_run_date # Some(sched.today)
                     /\ sched.returned = None
  /\ sched.returned = Some(TRUE) =>
       /\ sched.last_run_date = Some(sched.today)
       /\ sched.seeded # <<>>
       /\ sched.seeded[Len(sched.seeded)] = sched.today
  /\ \/ sched.last_run_date = sched.first
     \/ \E k \in DOMAIN sched.seeded : sched.last_run_date = Some(sched.seeded[k])

\* C29, of every step: a call that returns False found today's date stored and
\* changed nothing, and a seed starts only when the stored date is not today's.
C29_SkipChangesNothing ==
  /\ (sched'.returned = Some(FALSE) /\ sched.returned # Some(FALSE)) =>
       /\ sched.last_run_date = Some(sched.now)
       /\ UNCHANGED <<db, pending, runs, clock, catalog, at_start>>
       /\ sched'.last_run_date = sched.last_run_date
       /\ sched'.seeded = sched.seeded
       /\ sched'.pc = "sleep"
  /\ (sched.pc = "sleep" /\ sched'.pc = "prices") =>
       sched.last_run_date # Some(sched.now)
  /\ (sched.pc = "sleep" /\ sched.last_run_date = Some(sched.now) /\ sched'.today # sched.today) =>
       sched'.returned = Some(FALSE)

\* C29: the daily seed runs only if it was not done today, and is recorded only
\* after the price seed and the leaderboard seed have both completed.
C29_SeedOncePerDate == []C29_RecordedAfterBoth /\ [][C29_SkipChangesNothing]_vars

\* A leaderboard seed raised, the next check seeded again and stored the date,
\* and a later check of that date returned False.
C29_Witness ==
  /\ sched.raised > 0
  /\ sched.seeded # <<>>
  /\ sched.returned = Some(FALSE)
  /\ sched.last_run_date = Some(sched.now)

\* C30: exit_state is -1 until the execution of the command has finished; once
\* process_command has returned the stored exit_state is not -1: it is 0 when
\* the subprocess ended with status 0, the status of the subprocess when that is
\* not 0, and 2 when the subprocess could not be managed; a client that has
\* read an exit_state other than -1 does not read -1 afterwards.
C30_ExitStateSettles ==
  \A c \in CommandIds :
    cmd[c].created =>
      /\ cmd[c].exit_state # 0 - 1 =>
           \/ cmd[c].shell \in {"stored", "failed", "exited"}
           \/ cmd[c].manager = "returned"
      /\ cmd[c].manager = "returned" =>
           /\ cmd[c].exit_state # 0 - 1
           /\ cmd[c].exit_state = cmd[c].result
           /\ cmd[c].exit_state =
                (IF cmd[c].shell = "none" THEN 2 ELSE cmd[c].returncode)
      /\ ~cmd[c].seen_running_after

====
